---------------------------- MODULE Spec2Model ----------------------------
(***************************************************************************)
(* Navigation controller of the line/curve following robot:                *)
(*   src/robot/curve_follower.py        class CurveFollower                *)
(*   src/robot/main_curve_following.py  main(), the host control loop      *)
(*   src/robot/qr_camera.py             QRCamera.start_scan                *)
(*   src/example/picar.py               Picar.set_speed                    *)
(*                                                                         *)
(* Numbers.  The code computes with floats; the model computes the same    *)
(* quantities exactly, as integers in fixed units:                         *)
(*   speeds          in 1/12000 of full speed   (1.0  = SpeedOne = 12000)  *)
(*   line positions  in 1/12 of a sensor pitch  (1.0  = PosOne   = 12)     *)
(*   pid_integral    in 1/240                   (error/12 * dt, dt = 1/20) *)
(*   times           in milliseconds                                       *)
(* With these units every product and quotient the code forms is an        *)
(* integer, so no rounding is introduced by the model.                     *)
(***************************************************************************)
EXTENDS Integers, Sequences, FiniteSets, TLC

(***************************************************************************)
(* Bounds of the model (not program constants).                            *)
(***************************************************************************)
\* a clock saturates this many ms above the last threshold it is compared with
Overshoot == 1
\* |pid_integral| is kept within this many units of 1/240
MaxIntegral == 12
\* curve_confidence is kept at or below this
MaxConfidence == 3
\* a run of the control loop makes at most this many update() calls
MaxTicks == 6
\* a run of the free host makes at most this many update() calls
MaxApiTicks == 3
\* a run of QrSpec makes at most this many update() calls before the scan result
MaxQrTicks == 4
\* a run of the loop over a curved track makes at most this many update() calls
MaxCurveTicks == 9
\* a run of PidSpec makes at most this many _pid_control() calls
MaxPidCalls == 3
\* a run of DotSpec makes at most this many update() calls
MaxDotTicks == 4
\* a run of StartSpec makes at most this many update() calls
MaxStartTicks == 2
\* a run of HistSpec makes at most this many update() calls
MaxHistTicks == 7
\* the poller thread publishes at most this many readings
MaxPublications == 2
\* the main thread calls get_threaded_sensor_states() at most this many times
MaxReads == 2
\* the approach to a crossing or to the end of the line makes at most this many update() calls
MaxTrackTicks == 5
\* a run through bends makes at most this many update() calls
MaxBendTicks == 6

(***************************************************************************)
(* Program constants.                                                      *)
(***************************************************************************)
SpeedOne == 12000
PosOne == 12
\* self.speeds, curve_follower.py:66-72
SpeedNormal == 3000
SpeedCurveGentle == 2400
SpeedCurveSharp == 1800
SpeedDotApproach == 1440
SpeedCrossing == 1200
\* recovery nudges 0.1, 0.2, 0.15 (curve_follower.py:398-404)
RecoverySlow == 1200
RecoveryFast == 2400
RecoveryCrawl == 1800
\* self.history_length, self.curve_detection_threshold
history_length == 5
curve_detection_threshold == 2
\* thresholds on _time_in_state(), in ms
LostLineTime == 1000
DotExitTime == 2000
CrossingSettleTime == 500
RecoveryLeftTime == 1000
RecoveryRightTime == 2000
RecoveryTimeout == 5000
\* time.sleep() inside handle_qr_result, in ms
ForwardHold == 1000
TurnHold == 2000
\* self.update_interval = 0.05 s
update_interval == 50

Abs(x) == IF x < 0 THEN -x ELSE x
Max(a, b) == IF a > b THEN a ELSE b
Min(a, b) == IF a < b THEN a ELSE b

(***************************************************************************)
(* Sensor frames: 5 booleans, index 1 = far left ... 5 = far right         *)
(* (Python indices 0..4).                                                  *)
(***************************************************************************)
Frame(a, b, c, d, e) == <<a = 1, b = 1, c = 1, d = 1, e = 1>>
AllFrames == [1..5 -> BOOLEAN]

B2N(b) == IF b THEN 1 ELSE 0
ActiveCount(sensors) ==
    B2N(sensors[1]) + B2N(sensors[2]) + B2N(sensors[3]) + B2N(sensors[4]) + B2N(sensors[5])

\* weights = [-2.0, -1.0, 0.0, 1.0, 2.0]
Weight(i) == i - 3

\* _calculate_line_position, in units of 1/PosOne
WeightedSum(sensors) ==
    B2N(sensors[1]) * Weight(1) + B2N(sensors[2]) * Weight(2) + B2N(sensors[3]) * Weight(3)
  + B2N(sensors[4]) * Weight(4) + B2N(sensors[5]) * Weight(5)

\* exact signed division n / d for d > 0, used only where d divides n
Quot(n, d) == IF n >= 0 THEN n \div d ELSE -((-n) \div d)

\* a mutant: the weighted sum is not divided by the number of active sensors
calculate_line_position_undivided(sensors) == PosOne * WeightedSum(sensors)

calculate_line_position(sensors) ==
    IF ActiveCount(sensors) > 0
    THEN Quot(PosOne * WeightedSum(sensors), ActiveCount(sensors))
    ELSE 0

\* a mutant: a side counts only when the other side is clear
detect_curve_type_one_sided(sensors) ==
    LET left_sensors == B2N(sensors[1]) + B2N(sensors[2])
        center_sensor == sensors[3]
        right_sensors == B2N(sensors[4]) + B2N(sensors[5])
    IN  IF center_sensor /\ left_sensors = 0 /\ right_sensors = 0 THEN "straight"
        ELSE IF left_sensors >= 2 /\ right_sensors = 0 THEN "sharp_left"
        ELSE IF right_sensors >= 2 /\ left_sensors = 0 THEN "sharp_right"
        ELSE IF left_sensors = 1 /\ center_sensor THEN "gentle_left"
        ELSE IF right_sensors = 1 /\ center_sensor THEN "gentle_right"
        ELSE "straight"

\* _detect_curve_type
detect_curve_type(sensors) ==
    LET left_sensors == B2N(sensors[1]) + B2N(sensors[2])
        center_sensor == sensors[3]
        right_sensors == B2N(sensors[4]) + B2N(sensors[5])
    IN  IF center_sensor /\ left_sensors = 0 /\ right_sensors = 0 THEN "straight"
        ELSE IF left_sensors >= 2
             THEN (IF left_sensors = 2 THEN "sharp_left" ELSE "gentle_left")
        ELSE IF right_sensors >= 2
             THEN (IF right_sensors = 2 THEN "sharp_right" ELSE "gentle_right")
        ELSE IF left_sensors = 1 /\ center_sensor THEN "gentle_left"
        ELSE IF right_sensors = 1 /\ center_sensor THEN "gentle_right"
        ELSE "straight"

\* a mutant: the newest frame is dropped on overflow
update_sensor_history_drop_newest(hist, sensors) ==
    IF Len(hist) >= history_length THEN hist ELSE Append(hist, sensors)

\* _update_sensor_history: append, then drop the oldest beyond history_length
update_sensor_history(hist, sensors) ==
    LET h == Append(hist, sensors)
    IN  IF Len(h) > history_length THEN Tail(h) ELSE h

\* a mutant: the changes are counted over the whole history
is_dot_pattern_whole_history(hist) ==
    IF Len(hist) < 3 THEN FALSE
    ELSE Cardinality({i \in 2..Len(hist) : hist[i][3] # hist[i - 1][3]}) >= 2

\* _is_dot_pattern: center sensor changed at least twice over the last 3 frames
is_dot_pattern(hist) ==
    IF Len(hist) < 3 THEN FALSE
    ELSE LET n == Len(hist)
             c1 == hist[n - 2][3]
             c2 == hist[n - 1][3]
             c3 == hist[n][3]
         IN  B2N(c2 # c1) + B2N(c3 # c2) >= 2

is_crossing(sensors) == ActiveCount(sensors) >= 4
is_all_white(sensors) == ActiveCount(sensors) = 0
is_all_black(sensors) == ActiveCount(sensors) = 5
any_sensor(sensors) == ActiveCount(sensors) > 0


(***************************************************************************)
(* PID step (_pid_control).  Gains in tenths: kp = 0.8, ki = 0.1, kd = 0.3.*)
(* With error E/12, integral I/240 and dt = 1/20 s:                        *)
(*   12000 * (kp*error + ki*integral + kd*(error - previous)/dt)           *)
(*     = 100*pid_kp*E + 5*pid_ki*I + 2000*pid_kd*(E - P)                   *)
(***************************************************************************)
pid_kp == 8
pid_ki == 1
pid_kd == 3

Clamp(lo, hi, x) == Max(lo, Min(hi, x))

pid_output(error, integral, previous_error) ==
    100 * pid_kp * error + 5 * pid_ki * integral + 2000 * pid_kd * (error - previous_error)

\* max_adjustment = base_speed * 0.8
max_adjustment == (SpeedNormal * 8) \div 10

\* a mutant: the output limit is 1.2 * base_speed, beyond what the wheels can take
pid_control_wide_limit(line_position, integral, previous_error) ==
    LET error == line_position
        new_integral == integral + error
        out == Clamp(-((SpeedNormal * 12) \div 10), (SpeedNormal * 12) \div 10,
                     pid_output(error, new_integral, previous_error))
    IN  [left_speed |-> Clamp(0, SpeedOne, SpeedNormal - out),
         right_speed |-> Clamp(0, SpeedOne, SpeedNormal + out),
         pid_integral |-> new_integral,
         pid_previous_error |-> error]

\* a mutant: neither the output limit nor the speed clamps
pid_control_unlimited(line_position, integral, previous_error) ==
    LET error == line_position
        new_integral == integral + error
        out == pid_output(error, new_integral, previous_error)
    IN  [left_speed |-> SpeedNormal - out,
         right_speed |-> SpeedNormal + out,
         pid_integral |-> new_integral,
         pid_previous_error |-> error]

\* the record returned: wheel speeds and the new PidState
pid_control(line_position, integral, previous_error) ==
    LET error == line_position
        new_integral == integral + error
        out == Clamp(-max_adjustment, max_adjustment,
                     pid_output(error, new_integral, previous_error))
    IN  [left_speed |-> Clamp(0, SpeedOne, SpeedNormal - out),
         right_speed |-> Clamp(0, SpeedOne, SpeedNormal + out),
         pid_integral |-> new_integral,
         pid_previous_error |-> error]

\* _curve_following_speeds
curve_following_speeds(curve_type) ==
    IF curve_type = "gentle_left" THEN <<(SpeedCurveGentle * 7) \div 10, SpeedCurveGentle>>
    ELSE IF curve_type = "gentle_right" THEN <<SpeedCurveGentle, (SpeedCurveGentle * 7) \div 10>>
    ELSE IF curve_type = "sharp_left" THEN <<(SpeedCurveSharp * 5) \div 10, SpeedCurveSharp>>
    ELSE IF curve_type = "sharp_right" THEN <<SpeedCurveSharp, (SpeedCurveSharp * 5) \div 10>>
    ELSE <<SpeedNormal, SpeedNormal>>

\* _stop_motors issues speed 0 to both wheels
StopCmd == <<0, 0>>

(***************************************************************************)
(* CurveFollowerState values                                               *)
(***************************************************************************)
INIT == "initialization"
WAITING_START == "waiting_for_start"
LINE_FOLLOWING == "line_following"
CURVE_DETECTION == "curve_detection"
CURVE_FOLLOWING == "curve_following"
DOT_DETECTION == "dot_detection"
CROSSING_ANALYSIS == "crossing_analysis"
QR_SCANNING == "qr_scanning"
GOAL_REACHED == "goal_reached"
ERROR_RECOVERY == "error_recovery"

CurveFollowerState ==
    {INIT, WAITING_START, LINE_FOLLOWING, CURVE_DETECTION, CURVE_FOLLOWING,
     DOT_DETECTION, CROSSING_ANALYSIS, QR_SCANNING, GOAL_REACHED, ERROR_RECOVERY}

CurveType == {"straight", "gentle_left", "gentle_right", "sharp_left", "sharp_right"}

VARIABLES
    current_state,        \* self.current_state
    previous_state,       \* self.previous_state ("none" = None)
    time_in_state,        \* time.time() - self.state_entry_time at the end of the last operation, ms
    sensor_history,       \* self.sensor_history
    pid_integral,         \* self.pid_integral, units of 1/240
    pid_previous_error,   \* self.pid_previous_error, units of 1/12
    current_curve_type,   \* self.current_curve_type
    curve_confidence,     \* self.curve_confidence
    wheels,               \* speeds last set on the drive (Picar.set_speed), <<left, right>>
    cmds,                 \* the motor commands the last operation passed to the drive, in order
    pid_calls,            \* number of _pid_control calls made by the last operation
    held,                 \* ms the last operation slept between its command and its state change
    last_op,              \* the last operation: "new", "update", "qr", "scan_error", "interrupt", "cleanup"
    ret,                  \* value returned by the last update / handle_qr_result
    qr_result,            \* the scan result in the host's hands (None: none yet)
    since_active,         \* ms since a frame with an active sensor was last read (saturating)
    dt_last,              \* ms the clock advanced between the previous operation and the last update()
    ticks,                \* number of update() calls made so far
    args,                 \* arguments of the host's direct calls of a helper method, in order
    pc,                   \* position of the host: "loop", "scan", "finally", "exit", or "host"
    \* the threaded program main_test2.py
    current_sensor_states, \* the global list the poller publishes and the loop reads
    sensor_lock,          \* holder of sensor_lock: "free", "poller" or "main"
    new_states,           \* the poller's local new_states
    poller_pc,            \* the poller thread: "off", "read", "acquire", "assign", "release"
    main_pc,              \* the main thread: "start", "loop", "copy", "release"
    copy_result,          \* the copy made by get_threaded_sensor_states, about to be returned
    published,            \* the readings the poller has published, in order
    returned              \* the frames get_threaded_sensor_states has returned, in order

ctx == <<current_state, previous_state, time_in_state, sensor_history, pid_integral,
         pid_previous_error, current_curve_type, curve_confidence>>
obs == <<wheels, cmds, pid_calls, held, last_op, ret, qr_result, since_active, dt_last, ticks,
         args>>
threaded == <<current_sensor_states, sensor_lock, new_states, poller_pc, main_pc,
              copy_result, published, returned>>
vars == <<ctx, obs, pc, threaded>>

(***************************************************************************)
(* State handlers.  Each returns what the handler decides and changes:     *)
(*   next   the state it returns                                           *)
(*   cmds   the motor commands it issues, in order                         *)
(*   integ, prev   PidState after it                                       *)
(*   curve, conf   tracked CurveType and confidence counter after it       *)
(*   pids   how many times it ran the PID step                             *)
(* sensors is the frame read on this tick, hist the history including it,  *)
(* t the value of _time_in_state() during the handler.                     *)
(***************************************************************************)
\* a mutant: a handler that does not drive resets PidState
Keep_resets_pid(next, commands) ==
    [next |-> next, cmds |-> commands, integ |-> 0, prev |-> 0,
     curve |-> current_curve_type, conf |-> curve_confidence, pids |-> 0]

Keep(next, commands) ==
    [next |-> next, cmds |-> commands, integ |-> pid_integral, prev |-> pid_previous_error,
     curve |-> current_curve_type, conf |-> curve_confidence, pids |-> 0]

\* a mutant: the PID step runs twice on a drive
PidDrive_twice(sensors, next, curve, conf, num, den) ==
    LET p1 == pid_control(calculate_line_position(sensors), pid_integral, pid_previous_error)
        p == pid_control(calculate_line_position(sensors), p1.pid_integral,
                         p1.pid_previous_error)
    IN  [next |-> next,
         cmds |-> << <<(p.left_speed * num) \div den, (p.right_speed * num) \div den>> >>,
         integ |-> p.pid_integral, prev |-> p.pid_previous_error,
         curve |-> curve, conf |-> conf, pids |-> 2]

\* line_position -> _pid_control -> _move_motors, speeds scaled by num/den
PidDrive(sensors, next, curve, conf, num, den) ==
    LET p == pid_control(calculate_line_position(sensors), pid_integral, pid_previous_error)
    IN  [next |-> next,
         cmds |-> << <<(p.left_speed * num) \div den, (p.right_speed * num) \div den>> >>,
         integ |-> p.pid_integral, prev |-> p.pid_previous_error,
         curve |-> curve, conf |-> conf, pids |-> 1]

handle_init(sensors) == Keep(WAITING_START, <<StopCmd>>)

\* a mutant: an all-black frame starts the run too
handle_waiting_start_on_black(sensors) ==
    IF any_sensor(sensors) THEN Keep(LINE_FOLLOWING, <<>>) ELSE Keep(WAITING_START, <<>>)

handle_waiting_start(sensors) ==
    IF is_all_black(sensors) THEN Keep(WAITING_START, <<>>)
    ELSE IF any_sensor(sensors) THEN Keep(LINE_FOLLOWING, <<>>)
    ELSE Keep(WAITING_START, <<>>)

\* a mutant: the curve test placed before the crossing and dot tests
handle_line_following_curve_first(sensors, hist, t) ==
    IF is_all_white(sensors)
    THEN (IF t > LostLineTime THEN Keep(ERROR_RECOVERY, <<>>) ELSE Keep(LINE_FOLLOWING, <<>>))
    ELSE IF detect_curve_type(sensors) # "straight"
         THEN [Keep(CURVE_DETECTION, <<>>) EXCEPT !.curve = detect_curve_type(sensors)]
    ELSE IF is_crossing(sensors) THEN Keep(CROSSING_ANALYSIS, <<>>)
    ELSE IF is_dot_pattern(hist) THEN Keep(DOT_DETECTION, <<>>)
    ELSE PidDrive(sensors, LINE_FOLLOWING, current_curve_type, curve_confidence, 1, 1)

handle_line_following(sensors, hist, t) ==
    IF is_all_white(sensors)
    THEN (IF t > LostLineTime THEN Keep(ERROR_RECOVERY, <<>>) ELSE Keep(LINE_FOLLOWING, <<>>))
    ELSE IF is_crossing(sensors) THEN Keep(CROSSING_ANALYSIS, <<>>)
    ELSE IF is_dot_pattern(hist) THEN Keep(DOT_DETECTION, <<>>)
    ELSE IF detect_curve_type(sensors) # "straight"
         THEN [Keep(CURVE_DETECTION, <<>>) EXCEPT !.curve = detect_curve_type(sensors)]
    ELSE PidDrive(sensors, LINE_FOLLOWING, current_curve_type, curve_confidence, 1, 1)

\* a mutant: the first matching tick confirms the curve
handle_curve_detection_unconfirmed(sensors) ==
    LET curve_type == detect_curve_type(sensors)
    IN  IF curve_type = current_curve_type
        THEN [Keep(CURVE_FOLLOWING, <<>>) EXCEPT !.conf = curve_confidence + 1]
        ELSE (IF curve_type = "straight"
              THEN [Keep(LINE_FOLLOWING, <<>>) EXCEPT !.conf = 0]
              ELSE PidDrive(sensors, CURVE_DETECTION, current_curve_type, 0, 1, 1))

handle_curve_detection(sensors) ==
    LET curve_type == detect_curve_type(sensors)
    IN  IF curve_type = current_curve_type
        THEN (IF curve_confidence + 1 >= curve_detection_threshold
              THEN [Keep(CURVE_FOLLOWING, <<>>) EXCEPT !.conf = curve_confidence + 1]
              ELSE PidDrive(sensors, CURVE_DETECTION, current_curve_type,
                            curve_confidence + 1, 1, 1))
        ELSE (IF curve_type = "straight"
              THEN [Keep(LINE_FOLLOWING, <<>>) EXCEPT !.conf = 0]
              ELSE PidDrive(sensors, CURVE_DETECTION, current_curve_type, 0, 1, 1))

handle_curve_following(sensors, hist) ==
    IF detect_curve_type(sensors) = "straight"
    THEN [Keep(LINE_FOLLOWING, <<>>) EXCEPT !.conf = 0]
    ELSE IF is_crossing(sensors) THEN Keep(CROSSING_ANALYSIS, <<>>)
    ELSE IF is_dot_pattern(hist) THEN Keep(DOT_DETECTION, <<>>)
    ELSE Keep(CURVE_FOLLOWING, <<curve_following_speeds(current_curve_type)>>)

\* a mutant: the dots are left as soon as the pattern is gone
handle_dot_detection_no_wait(sensors, hist, t) ==
    LET next == IF is_crossing(sensors) THEN CROSSING_ANALYSIS
                ELSE IF ~is_dot_pattern(hist) THEN LINE_FOLLOWING
                ELSE DOT_DETECTION
    IN  IF any_sensor(sensors) /\ Abs(calculate_line_position(sensors)) < PosOne
        THEN PidDrive(sensors, next, current_curve_type, curve_confidence, 6, 10)
        ELSE Keep(next, <<>>)

handle_dot_detection(sensors, hist, t) ==
    LET next == IF is_crossing(sensors) THEN CROSSING_ANALYSIS
                ELSE IF ~is_dot_pattern(hist) /\ t > DotExitTime THEN LINE_FOLLOWING
                ELSE DOT_DETECTION
    IN  IF any_sensor(sensors) /\ Abs(calculate_line_position(sensors)) < PosOne
        THEN PidDrive(sensors, next, current_curve_type, curve_confidence, 6, 10)
        ELSE Keep(next, <<>>)

\* a mutant: the motors are not stopped at the crossing
handle_crossing_analysis_no_stop(sensors, t) ==
    IF t > CrossingSettleTime THEN Keep(QR_SCANNING, <<>>)
    ELSE Keep(CROSSING_ANALYSIS, <<>>)

\* a mutant: no settle time before the scan
handle_crossing_analysis_no_settle(sensors, t) == Keep(QR_SCANNING, <<StopCmd>>)

handle_crossing_analysis(sensors, t) ==
    IF t > CrossingSettleTime THEN Keep(QR_SCANNING, <<StopCmd>>)
    ELSE Keep(CROSSING_ANALYSIS, <<StopCmd>>)

\* a mutant: the timeout is tested before the sensors
handle_error_recovery_timeout_first(sensors, t) ==
    LET nudge == IF t < RecoveryLeftTime THEN <<RecoverySlow, RecoveryFast>>
                 ELSE IF t < RecoveryRightTime THEN <<RecoveryFast, RecoverySlow>>
                 ELSE <<RecoveryCrawl, RecoveryCrawl>>
    IN  IF t > RecoveryTimeout THEN Keep(GOAL_REACHED, <<nudge>>)
        ELSE IF any_sensor(sensors) THEN Keep(LINE_FOLLOWING, <<nudge>>)
        ELSE Keep(ERROR_RECOVERY, <<nudge>>)

\* a mutant: no recovery timeout
handle_error_recovery_no_timeout(sensors, t) ==
    LET nudge == IF t < RecoveryLeftTime THEN <<RecoverySlow, RecoveryFast>>
                 ELSE IF t < RecoveryRightTime THEN <<RecoveryFast, RecoverySlow>>
                 ELSE <<RecoveryCrawl, RecoveryCrawl>>
    IN  IF any_sensor(sensors) THEN Keep(LINE_FOLLOWING, <<nudge>>)
        ELSE Keep(ERROR_RECOVERY, <<nudge>>)

handle_error_recovery(sensors, t) ==
    LET nudge == IF t < RecoveryLeftTime THEN <<RecoverySlow, RecoveryFast>>
                 ELSE IF t < RecoveryRightTime THEN <<RecoveryFast, RecoverySlow>>
                 ELSE <<RecoveryCrawl, RecoveryCrawl>>
    IN  IF any_sensor(sensors) THEN Keep(LINE_FOLLOWING, <<nudge>>)
        ELSE IF t > RecoveryTimeout THEN Keep(GOAL_REACHED, <<nudge>>)
        ELSE Keep(ERROR_RECOVERY, <<nudge>>)

\* a mutant: the motors are not stopped
handle_goal_reached_coasting == Keep(GOAL_REACHED, <<>>)

\* the GOAL_REACHED branch of update(): stop the motors (and return False)
handle_goal_reached == Keep(GOAL_REACHED, <<StopCmd>>)

\* the dispatch of update()
dispatch(sensors, hist, t) ==
    IF current_state = INIT THEN handle_init(sensors)
    ELSE IF current_state = WAITING_START THEN handle_waiting_start(sensors)
    ELSE IF current_state = LINE_FOLLOWING THEN handle_line_following(sensors, hist, t)
    ELSE IF current_state = CURVE_DETECTION THEN handle_curve_detection(sensors)
    ELSE IF current_state = CURVE_FOLLOWING THEN handle_curve_following(sensors, hist)
    ELSE IF current_state = DOT_DETECTION THEN handle_dot_detection(sensors, hist, t)
    ELSE IF current_state = CROSSING_ANALYSIS THEN handle_crossing_analysis(sensors, t)
    ELSE IF current_state = QR_SCANNING THEN Keep(QR_SCANNING, <<>>)
    ELSE IF current_state = ERROR_RECOVERY THEN handle_error_recovery(sensors, t)
    ELSE handle_goal_reached

(***************************************************************************)
(* Strings are sequences of one-character strings, so that str.lower() and *)
(* the substring test `x in s` are computed character by character.        *)
(***************************************************************************)
LowerChar(c) ==
    CASE c = "R" -> "r" [] c = "I" -> "i" [] c = "G" -> "g" [] c = "H" -> "h"
      [] c = "T" -> "t" [] c = "L" -> "l" [] c = "E" -> "e" [] c = "F" -> "f"
      [] c = "O" -> "o" [] OTHER -> c

\* str.lower()
Lower(s) == [i \in 1..Len(s) |-> LowerChar(s[i])]

\* sub in s
Contains(s, sub) ==
    \E i \in 1..(Len(s) - Len(sub) + 1) : SubSeq(s, i, i + Len(sub) - 1) = sub

RightWord == <<"r", "i", "g", "h", "t">>
LeftWord == <<"l", "e", "f", "t">>
ZeroStr == <<"0">>
\* the string start_scan returns when it finds no code or has no camera
NoQrDetected ==
    <<"n", "o", " ", "q", "r", " ", "c", "o", "d", "e", " ",
      "d", "e", "t", "e", "c", "t", "e", "d">>

\* an optional string: None, or a string
None == [present |-> FALSE, chars |-> <<>>]
Str(s) == [present |-> TRUE, chars |-> s]

\* Python truthiness of an optional string: `not qr_result`
Falsy(q) == ~q.present \/ q.chars = <<>>

(***************************************************************************)
(* handle_qr_result: the rule its if/elif ladder selects for a scan result.*)
(***************************************************************************)
\* a mutant: the "left" test placed before the "right" test
qr_rule_left_first(q) ==
    IF Falsy(q) \/ q.chars = ZeroStr THEN "forward"
    ELSE IF Contains(Lower(q.chars), LeftWord) THEN "left"
    ELSE IF Contains(Lower(q.chars), RightWord) THEN "right"
    ELSE "goal"

qr_rule(q) ==
    IF Falsy(q) \/ q.chars = ZeroStr THEN "forward"
    ELSE IF Contains(Lower(q.chars), RightWord) THEN "right"
    ELSE IF Contains(Lower(q.chars), LeftWord) THEN "left"
    ELSE "goal"

(***************************************************************************)
(* handle_qr_result: what each branch does.                                *)
(*   cmds   the motor commands issued                                      *)
(*   hold   the time.sleep() after the command, ms                         *)
(*   next   the state passed to _change_state                              *)
(*   ret    the value returned                                             *)
(***************************************************************************)
\* a mutant: the turns are held as long as the forward nudge
qr_action_short_hold(rule) ==
    IF rule = "forward"
    THEN [cmds |-> << <<SpeedNormal, SpeedNormal>> >>, hold |-> ForwardHold,
          next |-> LINE_FOLLOWING, ret |-> TRUE]
    ELSE IF rule = "right"
    THEN [cmds |-> << <<SpeedCurveSharp, (SpeedCurveSharp * 3) \div 10>> >>,
          hold |-> ForwardHold, next |-> LINE_FOLLOWING, ret |-> TRUE]
    ELSE IF rule = "left"
    THEN [cmds |-> << <<(SpeedCurveSharp * 3) \div 10, SpeedCurveSharp>> >>,
          hold |-> ForwardHold, next |-> LINE_FOLLOWING, ret |-> TRUE]
    ELSE [cmds |-> <<>>, hold |-> 0, next |-> GOAL_REACHED, ret |-> FALSE]

qr_action(rule) ==
    IF rule = "forward"
    THEN [cmds |-> << <<SpeedNormal, SpeedNormal>> >>, hold |-> ForwardHold,
          next |-> LINE_FOLLOWING, ret |-> TRUE]
    ELSE IF rule = "right"
    THEN [cmds |-> << <<SpeedCurveSharp, (SpeedCurveSharp * 3) \div 10>> >>,
          hold |-> TurnHold, next |-> LINE_FOLLOWING, ret |-> TRUE]
    ELSE IF rule = "left"
    THEN [cmds |-> << <<(SpeedCurveSharp * 3) \div 10, SpeedCurveSharp>> >>,
          hold |-> TurnHold, next |-> LINE_FOLLOWING, ret |-> TRUE]
    ELSE [cmds |-> <<>>, hold |-> 0, next |-> GOAL_REACHED, ret |-> FALSE]

qr_decision(q) == qr_action(qr_rule(q))

(***************************************************************************)
(* Picar.set_speed clamps the speed to [0, 1] before setting the duty.     *)
(***************************************************************************)
set_speed(speed) == Max(Min(SpeedOne, speed), 0)

\* the wheel speeds after a sequence of commands
Drive(w, commands) ==
    IF commands = <<>> THEN w
    ELSE <<set_speed(commands[Len(commands)][1]), set_speed(commands[Len(commands)][2])>>

(***************************************************************************)
(* Clocks.  The code reads time.time() - state_entry_time only in the      *)
(* handlers of four states and compares it with fixed thresholds; Horizon  *)
(* is the largest threshold a state's handler uses.  The model's clock     *)
(* stops counting once it is past that horizon: all larger values are      *)
(* indistinguishable to the code.                                          *)
(***************************************************************************)
Horizon(state) ==
    IF state = LINE_FOLLOWING THEN LostLineTime
    ELSE IF state = DOT_DETECTION THEN DotExitTime
    ELSE IF state = CROSSING_ANALYSIS THEN CrossingSettleTime
    ELSE IF state = ERROR_RECOVERY THEN RecoveryTimeout
    ELSE 0

\* the value of a clock d ms after it read t, saturating above horizon h
Later(h, t, d) == Min(t + d, h + Overshoot)

(***************************************************************************)
(* _change_state: entering the same state is a no-op; a change records the *)
(* previous state and restarts the state-entry timestamp.                  *)
(***************************************************************************)
\* a mutant: the previous state is sometimes not recorded
change_state_may_forget(new_state, t) ==
    IF new_state # current_state
    THEN /\ previous_state' \in {current_state, previous_state}
         /\ current_state' = new_state
         /\ time_in_state' = 0
    ELSE /\ UNCHANGED <<previous_state, current_state>>
         /\ time_in_state' = t

\* a mutant: the timestamp is never restarted
change_state_keeps_timestamp(new_state, t) ==
    /\ previous_state' = IF new_state # current_state THEN current_state ELSE previous_state
    /\ current_state' = new_state
    /\ time_in_state' = t

\* a mutant: the timestamp restarts on every call
change_state_always_restart(new_state, t) ==
    /\ previous_state' = IF new_state # current_state THEN current_state ELSE previous_state
    /\ current_state' = new_state
    /\ time_in_state' = 0

change_state(new_state, t) ==
    IF new_state # current_state
    THEN /\ previous_state' = current_state
         /\ current_state' = new_state
         /\ time_in_state' = 0
    ELSE /\ UNCHANGED <<previous_state, current_state>>
         /\ time_in_state' = t

(***************************************************************************)
(* update(): one tick.  dt is the time since the previous operation ended, *)
(* sensors the frame read.  The frame is appended to the history, the      *)
(* handler of the current state runs, and _change_state is applied, unless *)
(* the state is GOAL_REACHED, where update stops the motors and returns    *)
(* False.                                                                  *)
(***************************************************************************)
update(sensors, dt) ==
    LET t == Later(Horizon(current_state), time_in_state, dt)
        hist == update_sensor_history(sensor_history, sensors)
    IN  \E r \in {dispatch(sensors, hist, t)} :
        /\ Abs(r.integ) <= MaxIntegral
        /\ r.conf <= MaxConfidence
        /\ sensor_history' = hist
        /\ pid_integral' = r.integ
        /\ pid_previous_error' = r.prev
        /\ current_curve_type' = r.curve
        /\ curve_confidence' = r.conf
        /\ IF current_state = GOAL_REACHED
           THEN /\ UNCHANGED <<current_state, previous_state>>
                /\ time_in_state' = t
                /\ ret' = FALSE
           ELSE /\ change_state(r.next, t)
                /\ ret' = TRUE
        /\ cmds' = r.cmds
        /\ wheels' = Drive(wheels, r.cmds)
        /\ pid_calls' = r.pids
        /\ held' = 0
        /\ last_op' = "update"
        /\ since_active' = IF any_sensor(sensors) THEN 0 ELSE Later(LostLineTime, since_active, dt)
        /\ dt_last' = dt
        /\ UNCHANGED <<qr_result, args, threaded>>

(***************************************************************************)
(* handle_qr_result(q): command, sleep, then _change_state.                *)
(***************************************************************************)
handle_qr_result(q) ==
    LET d == qr_decision(q)
    IN  /\ cmds' = d.cmds
        /\ wheels' = Drive(wheels, d.cmds)
        /\ held' = d.hold
        /\ change_state(d.next, Later(Horizon(current_state), time_in_state, d.hold))
        /\ ret' = d.ret
        /\ qr_result' = q
        /\ pid_calls' = 0
        /\ last_op' = "qr"
        /\ since_active' = Later(LostLineTime, since_active, d.hold)
        /\ UNCHANGED <<sensor_history, pid_integral, pid_previous_error,
                       current_curve_type, curve_confidence, dt_last, ticks, args, threaded>>

\* a mutant: the motors are left running
cleanup_no_stop ==
    /\ cmds' = <<>>
    /\ pid_calls' = 0
    /\ held' = 0
    /\ last_op' = "cleanup"
    /\ UNCHANGED <<ctx, wheels, ret, qr_result, since_active, dt_last, ticks, args, threaded>>

\* cleanup(): stop the motors
cleanup ==
    /\ cmds' = <<StopCmd>>
    /\ wheels' = Drive(wheels, <<StopCmd>>)
    /\ pid_calls' = 0
    /\ held' = 0
    /\ last_op' = "cleanup"
    /\ UNCHANGED <<ctx, ret, qr_result, since_active, dt_last, ticks, args, threaded>>

(***************************************************************************)
(* Inputs.                                                                 *)
(***************************************************************************)
\* frames read by the ticks: no line, centered line, gentle left bend,
\* 4-sensor crossing, all-black bar, sharp right bend
TickFrames ==
    {Frame(0,0,0,0,0), Frame(0,0,1,0,0), Frame(0,1,1,0,0), Frame(1,1,1,1,0)}

\* time between the end of one operation and the next tick's clock reading, ms:
\* at least the loop's sleep of update_interval
TickDeltas == {5 * update_interval, 55 * update_interval}

\* strings a decoded QR code may hold
Pieces ==
    {<<>>, ZeroStr, RightWord, <<"R", "I", "G", "H", "T">>, <<"R", "i", "g", "h", "t">>,
     LeftWord, <<"L", "E", "F", "T">>, <<"G", "o", " ">>, <<"g", "o", "a", "l">>,
     <<"r", "i", "g", "h">>, <<"e", "f", "t">>}
QrStrings == {a \o b : a \in Pieces, b \in Pieces}

\* arguments a host may pass to handle_qr_result
QrInputs == {None} \cup {Str(s) : s \in QrStrings}

(***************************************************************************)
(* QRCamera.start_scan: the decoded data of the first code found (a        *)
(* non-empty string), or NoQrDetected when there is no camera or no code   *)
(* in any cycle.                                                           *)
(***************************************************************************)
start_scan(found, qr_data) ==
    IF found /\ qr_data # <<>> THEN Str(qr_data) ELSE Str(NoQrDetected)

\* codes on the track
TrackCodes ==
    {ZeroStr, <<"G", "o", " ">> \o <<"R", "I", "G", "H", "T">>, LeftWord,
     <<"g", "o", "a", "l">>, LeftWord \o RightWord}

(***************************************************************************)
(* Attributes of a CurveFollower instance (set in __init__, plus methods). *)
(* The enum CurveFollowerState is a module-level name, not an attribute.   *)
(***************************************************************************)
InstanceAttributes ==
    {"pc", "current_state", "previous_state", "motor_left", "motor_right",
     "pid_kp", "pid_ki", "pid_kd", "pid_integral", "pid_previous_error", "speeds",
     "sensor_history", "history_length", "dot_detection_threshold",
     "curve_detection_threshold", "update_interval", "state_entry_time",
     "current_curve_type", "curve_confidence", "last_valid_line_time",
     "update", "handle_qr_result", "cleanup", "_change_state"}

(***************************************************************************)
(* main_test2.py at import: the placeholder list, the free lock, the       *)
(* poller thread not started.                                              *)
(***************************************************************************)
InitThreaded ==
    /\ current_sensor_states = <<0, 0, 0, 0, 0>>
    /\ sensor_lock = "free"
    /\ new_states = <<>>
    /\ poller_pc = "off"
    /\ main_pc = "start"
    /\ copy_result = <<>>
    /\ published = <<>>
    /\ returned = <<>>

(***************************************************************************)
(* The state after construction (CurveFollower.__init__, Picar.__init__).  *)
(***************************************************************************)
InitController ==
    /\ InitThreaded
    /\ current_state = INIT
    /\ previous_state = "none"
    /\ time_in_state = 0
    /\ sensor_history = <<>>
    /\ pid_integral = 0
    /\ pid_previous_error = 0
    /\ current_curve_type = "straight"
    /\ curve_confidence = 0
    /\ wheels = <<0, 0>>
    /\ cmds = <<>>
    /\ pid_calls = 0
    /\ held = 0
    /\ last_op = "new"
    /\ ret = TRUE
    /\ since_active = LostLineTime + Overshoot
    /\ dt_last = 0
    /\ ticks = 0
    /\ args = <<>>

(***************************************************************************)
(* main(): the host control loop of main_curve_following.py.               *)
(***************************************************************************)
Init == InitController /\ qr_result = None /\ pc = "loop"

\* one loop iteration: update(), then break, scan or sleep
Tick ==
    /\ pc = "loop"
    /\ ticks < MaxTicks
    /\ ticks' = ticks + 1
    /\ \E sensors \in TickFrames, dt \in TickDeltas : update(sensors, dt)
    /\ pc' = IF ~ret' THEN "finally"
             ELSE IF current_state' = QR_SCANNING THEN "scan"
             ELSE "loop"

\* start_scan() returns and handle_qr_result() handles the result
Scan ==
    /\ pc = "scan"
    /\ \E found \in BOOLEAN, qr_data \in TrackCodes :
           handle_qr_result(start_scan(found, qr_data))
    /\ pc' = IF ret' THEN "loop" ELSE "finally"

\* start_scan() raises: the except block evaluates
\* curve_follower.CurveFollowerState, an attribute lookup on the instance
ScanError ==
    /\ pc = "scan"
    /\ IF "CurveFollowerState" \in InstanceAttributes
       THEN /\ change_state(LINE_FOLLOWING, time_in_state)
            /\ pc' = "loop"
       ELSE /\ UNCHANGED <<current_state, previous_state, time_in_state>>
            /\ pc' = "finally"
    /\ last_op' = "scan_error"
    /\ cmds' = <<>>
    /\ pid_calls' = 0
    /\ held' = 0
    /\ UNCHANGED <<sensor_history, pid_integral, pid_previous_error, current_curve_type,
                   curve_confidence, wheels, ret, qr_result, since_active, dt_last, ticks,
                   args, threaded>>

\* KeyboardInterrupt in the loop
Interrupt ==
    /\ pc \in {"loop", "scan"}
    /\ pc' = "finally"
    /\ last_op' = "interrupt"
    /\ cmds' = <<>>
    /\ pid_calls' = 0
    /\ held' = 0
    /\ UNCHANGED <<ctx, wheels, ret, qr_result, since_active, dt_last, ticks, args, threaded>>

\* the finally block: curve_follower.cleanup()
Finally ==
    /\ pc = "finally"
    /\ cleanup
    /\ pc' = "exit"

Next == Tick \/ Scan \/ ScanError \/ Interrupt \/ Finally

Spec == Init /\ [][Next]_vars

(***************************************************************************)
(* A host that calls the controller's operations in any order.             *)
(***************************************************************************)
ApiInit == InitController /\ qr_result = None /\ pc = "host"

\* one scan result of each kind the interpreter tells apart
ApiQrInputs ==
    {None, Str(<<>>), Str(ZeroStr), Str(<<"G", "o", " ">> \o <<"R", "I", "G", "H", "T">>),
     Str(LeftWord), Str(<<"g", "o", "a", "l">>)}

ApiUpdate ==
    /\ pc = "host"
    /\ ticks < MaxApiTicks
    /\ ticks' = ticks + 1
    /\ \E sensors \in TickFrames, dt \in TickDeltas : update(sensors, dt)
    /\ UNCHANGED pc

ApiHandleQr ==
    /\ pc = "host"
    /\ \E q \in ApiQrInputs : handle_qr_result(q)
    /\ UNCHANGED pc

ApiCleanup ==
    /\ pc = "host"
    /\ cleanup
    /\ UNCHANGED pc

ApiNext == ApiUpdate \/ ApiHandleQr \/ ApiCleanup

ApiSpec == ApiInit /\ [][ApiNext]_vars

(***************************************************************************)
(* The scan-result interpreter on every input: the host holds some scan    *)
(* result, ticks the controller a few times and then delivers the result.  *)
(***************************************************************************)
QrInit == InitController /\ qr_result \in QrInputs /\ pc = "host"

QrFrames == {Frame(0,0,1,0,0), Frame(1,1,1,1,0)}

QrTick ==
    /\ pc = "host"
    /\ ticks < MaxQrTicks
    /\ ticks' = ticks + 1
    /\ \E sensors \in QrFrames, dt \in TickDeltas : update(sensors, dt)
    /\ pc' = pc

QrDeliver ==
    /\ pc = "host"
    /\ handle_qr_result(qr_result)
    /\ pc' = "delivered"

QrNext == QrTick \/ QrDeliver

QrSpec == QrInit /\ [][QrNext]_vars

(***************************************************************************)
(* The control loop left to tick for ever (no scan result, no interrupt):  *)
(* every iteration ends in a sleep and starts the next update(), so the    *)
(* tick is weakly fair.                                                    *)
(***************************************************************************)
LiveFrames == {Frame(0,0,0,0,0), Frame(0,0,1,0,0)}

LiveTick ==
    /\ pc = "host"
    /\ \E sensors \in LiveFrames, dt \in TickDeltas : update(sensors, dt)
    /\ UNCHANGED <<pc, ticks>>

LiveSpec == ApiInit /\ [][LiveTick]_vars /\ WF_vars(LiveTick)

(***************************************************************************)
(* The control loop on a track of straights, bends and crossings, with     *)
(* scans that return: long enough a run to pass a bend, a crossing and a   *)
(* second bend.                                                            *)
(***************************************************************************)
\* centered line, gentle right bend, 4-sensor crossing
CurveFrames == {Frame(0,0,1,0,0), Frame(0,0,1,1,0), Frame(1,1,1,1,0)}

CurveTick ==
    /\ pc = "loop"
    /\ ticks < MaxCurveTicks
    /\ ticks' = ticks + 1
    /\ \E sensors \in CurveFrames, dt \in TickDeltas : update(sensors, dt)
    /\ pc' = IF ~ret' THEN "finally"
             ELSE IF current_state' = QR_SCANNING THEN "scan"
             ELSE "loop"

CurveNext == CurveTick \/ Scan \/ Finally

CurveSpec == Init /\ [][CurveNext]_vars

(***************************************************************************)
(* A host that constructs the controller and calls its sensor helpers      *)
(* directly, on any of the 32 frames.  The helpers read no field and       *)
(* change none; args holds the frame passed and ret the value returned.    *)
(***************************************************************************)
Probe(name, sensors, value) ==
    /\ last_op' = name
    /\ args' = <<sensors>>
    /\ ret' = value
    /\ UNCHANGED <<ctx, wheels, cmds, pid_calls, held, qr_result, since_active, dt_last,
                   ticks, pc, threaded>>

ProbeCurveType ==
    /\ pc = "host"
    /\ \E sensors \in AllFrames :
           Probe("detect_curve_type", sensors, detect_curve_type(sensors))

ProbeLinePosition ==
    /\ pc = "host"
    /\ \E sensors \in AllFrames :
           Probe("calculate_line_position", sensors, calculate_line_position(sensors))

ProbeAllWhite ==
    /\ pc = "host"
    /\ \E sensors \in AllFrames : Probe("is_all_white", sensors, is_all_white(sensors))

ProbeCrossing ==
    /\ pc = "host"
    /\ \E sensors \in AllFrames : Probe("is_crossing", sensors, is_crossing(sensors))

ProbeNext == ProbeCurveType \/ ProbeLinePosition \/ ProbeAllWhite \/ ProbeCrossing

ProbeSpec == ApiInit /\ [][ProbeNext]_vars

(***************************************************************************)
(* A host that constructs the controller and calls _pid_control directly   *)
(* with a sequence of line positions; args holds the positions passed so   *)
(* far and ret the wheel speeds returned by the last call.                 *)
(***************************************************************************)
\* line positions -2.0, -1.0, -0.5, 0.0, 0.5, 1.0, 2.0
PidErrors == {-2 * PosOne, -PosOne, -(PosOne \div 2), 0, PosOne \div 2, PosOne, 2 * PosOne}

PidCall ==
    /\ pc = "host"
    /\ Len(args) < MaxPidCalls
    /\ \E line_position \in PidErrors :
           LET p == pid_control(line_position, pid_integral, pid_previous_error)
           IN  /\ pid_integral' = p.pid_integral
               /\ pid_previous_error' = p.pid_previous_error
               /\ ret' = <<p.left_speed, p.right_speed>>
               /\ args' = Append(args, line_position)
    /\ last_op' = "pid_control"
    /\ pid_calls' = 1
    /\ UNCHANGED <<current_state, previous_state, time_in_state, sensor_history,
                   current_curve_type, curve_confidence, wheels, cmds, held, qr_result,
                   since_active, dt_last, ticks, pc, threaded>>

PidSpec == ApiInit /\ [][PidCall]_vars

(***************************************************************************)
(* A host that ticks the controller and calls _is_dot_pattern between the  *)
(* ticks; ret holds the value returned.                                    *)
(***************************************************************************)
\* frames with the center sensor off or on, alone or with a neighbour
DotFrames ==
    {Frame(0,0,0,0,0), Frame(0,0,1,0,0), Frame(0,1,0,0,0), Frame(0,1,1,0,0)}

DotTick ==
    /\ pc = "host"
    /\ ticks < MaxDotTicks
    /\ ticks' = ticks + 1
    /\ \E sensors \in DotFrames, dt \in TickDeltas : update(sensors, dt)
    /\ UNCHANGED pc

ProbeDot ==
    /\ pc = "host"
    /\ last_op' = "is_dot_pattern"
    /\ ret' = is_dot_pattern(sensor_history)
    /\ UNCHANGED <<ctx, wheels, cmds, pid_calls, held, qr_result, since_active, dt_last,
                   ticks, args, pc, threaded>>

DotNext == DotTick \/ ProbeDot

DotSpec == ApiInit /\ [][DotNext]_vars

(***************************************************************************)
(* The first ticks of a run, on any of the 32 frames, at the loop's own    *)
(* pace (one sleep of update_interval between ticks).                      *)
(***************************************************************************)
StartTick ==
    /\ pc = "host"
    /\ ticks < MaxStartTicks
    /\ ticks' = ticks + 1
    /\ \E sensors \in AllFrames : update(sensors, update_interval)
    /\ UNCHANGED pc

StartSpec == ApiInit /\ [][StartTick]_vars

(***************************************************************************)
(* A host that ticks the controller past the length of the sensor history  *)
(* and hands it scan results at any moment, so that ticks are also made in *)
(* QR_SCANNING and in GOAL_REACHED.                                        *)
(***************************************************************************)
HistTick ==
    /\ pc = "host"
    /\ ticks < MaxHistTicks
    /\ ticks' = ticks + 1
    /\ \E sensors \in QrFrames, dt \in TickDeltas : update(sensors, dt)
    /\ UNCHANGED pc

HistNext == HistTick \/ ApiHandleQr

HistSpec == ApiInit /\ [][HistNext]_vars

(***************************************************************************)
(* main_test2.py: the main thread starts the sensor poller and then reads  *)
(* frames with get_threaded_sensor_states(); the poller thread reads the   *)
(* sensors and publishes the reading under sensor_lock.  One action per    *)
(* step of a thread between two points where the other thread can run.    *)
(* The controller of curve_follower.py is not used by this program.        *)
(***************************************************************************)
\* readings of the five sensors (0/1), as Picar.get_line_sensor_states returns them
SensorReadings == {<<0, 0, 0, 0, 0>>, <<1, 1, 1, 1, 1>>, <<0, 0, 1, 0, 0>>, <<1, 1, 0, 0, 0>>}

Controller == <<ctx, obs, pc>>

\* sensor_thread.start()
StartPoller ==
    /\ main_pc = "start"
    /\ main_pc' = "loop"
    /\ poller_pc' = "read"
    /\ UNCHANGED <<Controller, current_sensor_states, sensor_lock, new_states, copy_result,
                   published, returned>>

\* new_states = pc.get_line_sensor_states()
PollerRead ==
    /\ poller_pc = "read"
    /\ Len(published) < MaxPublications
    /\ new_states' \in SensorReadings
    /\ poller_pc' = "acquire"
    /\ UNCHANGED <<Controller, current_sensor_states, sensor_lock, main_pc, copy_result,
                   published, returned>>

\* with sensor_lock: (enter)
PollerAcquire ==
    /\ poller_pc = "acquire"
    /\ sensor_lock = "free"
    /\ sensor_lock' = "poller"
    /\ poller_pc' = "assign"
    /\ UNCHANGED <<Controller, current_sensor_states, new_states, main_pc, copy_result,
                   published, returned>>

\* current_sensor_states = new_states
PollerAssign ==
    /\ poller_pc = "assign"
    /\ current_sensor_states' = new_states
    /\ published' = Append(published, new_states)
    /\ poller_pc' = "release"
    /\ UNCHANGED <<Controller, sensor_lock, new_states, main_pc, copy_result, returned>>

\* with sensor_lock: (exit), then time.sleep(0.005)
PollerRelease ==
    /\ poller_pc = "release"
    /\ sensor_lock' = "free"
    /\ poller_pc' = "read"
    /\ UNCHANGED <<Controller, current_sensor_states, new_states, main_pc, copy_result,
                   published, returned>>

\* get_threaded_sensor_states(): with sensor_lock: (enter)
MainAcquire ==
    /\ main_pc = "loop"
    /\ Len(returned) < MaxReads
    /\ sensor_lock = "free"
    /\ sensor_lock' = "main"
    /\ main_pc' = "copy"
    /\ UNCHANGED <<Controller, current_sensor_states, new_states, poller_pc, copy_result,
                   published, returned>>

\* current_sensor_states.copy()
MainCopy ==
    /\ main_pc = "copy"
    /\ copy_result' = current_sensor_states
    /\ main_pc' = "release"
    /\ UNCHANGED <<Controller, current_sensor_states, sensor_lock, new_states, poller_pc,
                   published, returned>>

\* with sensor_lock: (exit) and return of the copy to the control loop
MainReturn ==
    /\ main_pc = "release"
    /\ sensor_lock' = "free"
    /\ returned' = Append(returned, copy_result)
    /\ main_pc' = "loop"
    /\ UNCHANGED <<Controller, current_sensor_states, new_states, poller_pc, copy_result,
                   published>>

ThreadedNext ==
    \/ StartPoller \/ PollerRead \/ PollerAcquire \/ PollerAssign \/ PollerRelease
    \/ MainAcquire \/ MainCopy \/ MainReturn

ThreadedSpec == ApiInit /\ [][ThreadedNext]_vars

(***************************************************************************)
(* The control loop on a track that ends in a crossing: the robot follows  *)
(* the track for a while and, once it is following it, comes to stand over *)
(* a crossing, which every later frame shows.  No scan result is           *)
(* delivered.  Every iteration of the loop ends in a sleep and starts the  *)
(* next update(), so the tick is weakly fair.                              *)
(***************************************************************************)
\* no line, centered line, gentle right bend, sharp left bend
TrackFrames == {Frame(0,0,0,0,0), Frame(0,0,1,0,0), Frame(0,0,1,1,0), Frame(1,1,0,0,0)}

\* a crossing centered under the robot (line position 0)
CrossingFrames == {Frame(1,1,1,1,1)}

Following == {LINE_FOLLOWING, CURVE_DETECTION, CURVE_FOLLOWING, DOT_DETECTION}

TrackTick ==
    /\ pc = "host"
    /\ ticks < MaxTrackTicks
    /\ ticks' = ticks + 1
    /\ \E sensors \in TrackFrames, dt \in TickDeltas : update(sensors, dt)
    /\ UNCHANGED pc

CrossingTick ==
    /\ pc = "crossing" \/ (pc = "host" /\ current_state \in Following)
    /\ \E sensors \in CrossingFrames : update(sensors, 5 * update_interval)
    /\ pc' = "crossing"
    /\ UNCHANGED ticks

CrossNext == TrackTick \/ CrossingTick

CrossSpec == ApiInit /\ [][CrossNext]_vars /\ WF_vars(CrossNext)

(***************************************************************************)
(* The control loop on a track that ends: the robot follows the track for  *)
(* a while and then loses the line for good, every later frame being       *)
(* all-white.  The loop sleeps and ticks again for ever, so the ticks      *)
(* after the loss are weakly fair.                                         *)
(***************************************************************************)
LostTick ==
    /\ pc = "lost" \/ (pc = "host" /\ current_state \in Following \cup {ERROR_RECOVERY})
    /\ \E dt \in TickDeltas : update(Frame(0,0,0,0,0), dt)
    /\ pc' = "lost"
    /\ UNCHANGED ticks

LostNext == TrackTick \/ LostTick

LostSpec == ApiInit /\ [][LostNext]_vars /\ WF_vars(LostTick)

(***************************************************************************)
(* A run through bends to either side, at the loop's own pace (one sleep   *)
(* of update_interval between ticks).                                      *)
(***************************************************************************)
\* centered line, gentle right bend, gentle left bend
BendFrames == {Frame(0,0,1,0,0), Frame(0,0,1,1,0), Frame(0,1,1,0,0)}

BendTick ==
    /\ pc = "host"
    /\ ticks < MaxBendTicks
    /\ ticks' = ticks + 1
    /\ \E sensors \in BendFrames : update(sensors, update_interval)
    /\ UNCHANGED pc

BendSpec == ApiInit /\ [][BendTick]_vars

(***************************************************************************)
(*                               CLAIMS                                    *)
(***************************************************************************)

\* the state was entered by the update() that just ran
JustEntered(state) ==
    current_state = state /\ last_op = "update" /\ time_in_state = 0

(* C1: a scan that raises is recoverable: after the failure the control    *)
(* loop is still running and the controller is in LINE_FOLLOWING.          *)
C1_ScanFailureRecoverable ==
    last_op = "scan_error" => (pc = "loop" /\ current_state = LINE_FOLLOWING)

(* C2: when start_scan finds no code (or has no camera), what it delivers  *)
(* is handled as "no result": forward command, LINE_FOLLOWING, and not     *)
(* GOAL_REACHED.                                                           *)
C2_NoCodeIsNoResult ==
    (last_op = "qr" /\ qr_result = start_scan(FALSE, <<>>)) =>
        /\ current_state = LINE_FOLLOWING
        /\ cmds = << <<SpeedNormal, SpeedNormal>> >>
        /\ ret = TRUE

(***************************************************************************)
(* The four-rule reference of the scan-result interpreter, stated on the   *)
(* characters of the input without lower-casing it.                        *)
(***************************************************************************)
UpperChar(c) ==
    CASE c = "r" -> "R" [] c = "i" -> "I" [] c = "g" -> "G" [] c = "h" -> "H"
      [] c = "t" -> "T" [] c = "l" -> "L" [] c = "e" -> "E" [] c = "f" -> "F"
      [] OTHER -> c

\* s holds the lower-case word w at some position, in any letter case
HasWord(s, w) ==
    \E i \in 1..Len(s) :
        /\ i + Len(w) - 1 <= Len(s)
        /\ \A j \in 1..Len(w) : s[i + j - 1] \in {w[j], UpperChar(w[j])}

NoResult(q) == ~q.present \/ Len(q.chars) = 0 \/ (Len(q.chars) = 1 /\ q.chars[1] = "0")

RefRule(q) ==
    IF NoResult(q) THEN "forward"
    ELSE IF HasWord(q.chars, RightWord) THEN "right"
    ELSE IF HasWord(q.chars, LeftWord) THEN "left"
    ELSE "goal"

(* C3: handle_qr_result follows the ordered four-rule reference on every   *)
(* input: no result -> forward, LINE_FOLLOWING; "right" -> right turn,     *)
(* LINE_FOLLOWING (also with "left" present); "left" -> left turn,         *)
(* LINE_FOLLOWING; anything else -> GOAL_REACHED; and it returns False     *)
(* exactly when the state is then GOAL_REACHED.                            *)
C3_QrResultMatchesReference ==
    pc = "delivered" =>
        /\ RefRule(qr_result) = "forward" =>
               current_state = LINE_FOLLOWING /\ wheels[1] = wheels[2] /\ wheels[1] > 0
        /\ RefRule(qr_result) = "right" =>
               current_state = LINE_FOLLOWING /\ wheels[1] > wheels[2]
        /\ RefRule(qr_result) = "left" =>
               current_state = LINE_FOLLOWING /\ wheels[1] < wheels[2]
        /\ RefRule(qr_result) = "goal" => current_state = GOAL_REACHED
        /\ (ret = FALSE) <=> (current_state = GOAL_REACHED)

\* a result holding both words was delivered and handled as a right turn
C3_Witness ==
    /\ pc = "delivered"
    /\ HasWord(qr_result.chars, LeftWord)
    /\ HasWord(qr_result.chars, RightWord)
    /\ previous_state = CROSSING_ANALYSIS
    /\ wheels[1] > wheels[2]

(* C4: for a result containing "right" exactly one motor command is issued,*)
(* left wheel at curve_sharp and right wheel at 30% of it, it is held for  *)
(* 2.0 s, and only then the state becomes LINE_FOLLOWING (a state changed  *)
(* by the call is entered when the hold ends: its clock reads 0);          *)
(* "left" without "right" mirrors the wheels.                              *)
C4_TurnHeldTwoSeconds ==
    [][(pc = "host" /\ pc' = "delivered" /\ RefRule(qr_result) \in {"right", "left"}) =>
          /\ Len(cmds') = 1
          /\ cmds'[1] = IF RefRule(qr_result) = "right"
                        THEN <<SpeedCurveSharp, (3 * SpeedCurveSharp) \div 10>>
                        ELSE <<(3 * SpeedCurveSharp) \div 10, SpeedCurveSharp>>
          /\ wheels' = cmds'[1]
          /\ held' = 2000
          /\ current_state' = LINE_FOLLOWING
          /\ (current_state # LINE_FOLLOWING => time_in_state' = 0)]_vars

\* "Go RIGHT" was delivered while the controller waited in QR_SCANNING
C4_Witness ==
    /\ pc = "delivered"
    /\ qr_result = Str(<<"G", "o", " ">> \o <<"R", "I", "G", "H", "T">>)
    /\ previous_state = QR_SCANNING
    /\ held = 2000

(* C5: GOAL_REACHED is terminal under ticking: an update() in GOAL_REACHED *)
(* leaves the state GOAL_REACHED, commands a stop (both wheels 0) and      *)
(* returns False.                                                          *)
C5_GoalTerminal ==
    [][(current_state = GOAL_REACHED /\ ticks' = ticks + 1) =>
          /\ current_state' = GOAL_REACHED
          /\ cmds' = <<StopCmd>>
          /\ wheels' = <<0, 0>>
          /\ ret' = FALSE]_vars

\* update() ran in GOAL_REACHED after a turn command had set the wheels
C5_Witness ==
    /\ current_state = GOAL_REACHED
    /\ last_op = "update"
    /\ ret = FALSE
    /\ previous_state = LINE_FOLLOWING
    /\ wheels = <<0, 0>>

\* the frame read by the update() that just ran
LastFrame == sensor_history[Len(sensor_history)]

(* C6: recovery timeout: an update() in ERROR_RECOVERY that reads an       *)
(* all-white frame more than 5.0 s after entry enters GOAL_REACHED, and    *)
(* with ticks continuing ERROR_RECOVERY always leads to GOAL_REACHED or to *)
(* a frame with an active sensor: it is never kept for ever.               *)
C6_RecoveryTimeout ==
    /\ [][(/\ current_state = ERROR_RECOVERY
           /\ last_op' = "update"
           /\ is_all_white(LastFrame')
           /\ time_in_state + dt_last' > RecoveryTimeout) =>
              current_state' = GOAL_REACHED]_vars
    /\ (current_state = ERROR_RECOVERY) ~>
           (current_state = GOAL_REACHED \/ (last_op = "update" /\ ~is_all_white(LastFrame)))

\* the timeout fired
C6_Witness == JustEntered(GOAL_REACHED) /\ previous_state = ERROR_RECOVERY

\* the centre sensor changed twice over the last three frames
CentreToggled(hist) ==
    /\ Len(hist) >= 3
    /\ hist[Len(hist)][3] = hist[Len(hist) - 2][3]
    /\ hist[Len(hist)][3] # hist[Len(hist) - 1][3]

\* the outcome of a LINE_FOLLOWING tick by the first matching check
LineFollowingRef(frame, hist, t) ==
    IF \A i \in 1..5 : ~frame[i]
    THEN (IF t > 1000 THEN ERROR_RECOVERY ELSE LINE_FOLLOWING)
    ELSE IF Cardinality({i \in 1..5 : frame[i]}) >= 4 THEN CROSSING_ANALYSIS
    ELSE IF CentreToggled(hist) THEN DOT_DETECTION
    ELSE IF detect_curve_type(frame) # "straight" THEN CURVE_DETECTION
    ELSE "pid_drive"

C8_GracePeriod ==
    JustEntered(ERROR_RECOVERY) => since_active >= 1000

(* C9: every wheel speed passed to the drive by update(), handle_qr_result *)
(* or cleanup lies in [0, 1].                                              *)
C9_SpeedsInUnitRange ==
    \A i \in 1..Len(cmds) :
        /\ 0 <= cmds[i][1] /\ cmds[i][1] <= SpeedOne
        /\ 0 <= cmds[i][2] /\ cmds[i][2] <= SpeedOne

\* a PID drive whose output was cut at the limit
C9_Witness ==
    /\ pid_calls = 1
    /\ Abs(pid_output(pid_previous_error, pid_integral, 0)) > max_adjustment
    /\ cmds = << <<SpeedNormal + max_adjustment, SpeedNormal - max_adjustment>> >>

(* C10: the curve-confidence counter is 0 whenever a non-curve state is    *)
(* entered from CURVE_DETECTION or CURVE_FOLLOWING.                        *)
C10_ConfidenceResetOnExit ==
    (/\ last_op = "update"
     /\ time_in_state = 0
     /\ previous_state \in {CURVE_DETECTION, CURVE_FOLLOWING}
     /\ current_state \in {LINE_FOLLOWING, DOT_DETECTION, CROSSING_ANALYSIS}) =>
        curve_confidence = 0

(* C11: a curve is confirmed before curve speeds are used: the tick that   *)
(* enters CURVE_FOLLOWING is preceded, in the same visit to                *)
(* CURVE_DETECTION, by another CURVE_DETECTION tick whose frame classified *)
(* as the tracked curve type (so at least 2 consecutive matching ticks).   *)
C11_CurveConfirmedTwice ==
    [][(current_state = CURVE_DETECTION /\ current_state' = CURVE_FOLLOWING) =>
          /\ time_in_state > 0
          /\ last_op = "update"
          /\ detect_curve_type(LastFrame) = current_curve_type
          /\ detect_curve_type(LastFrame') = current_curve_type]_vars

\* number of active sensors on the left (indices 0,1) and right (3,4) of a frame
LeftActive(f) == Cardinality({i \in {1, 2} : f[i]})
RightActive(f) == Cardinality({i \in {4, 5} : f[i]})

(* C12: for a frame whose active side sensors are all on one side (or that *)
(* has none), _detect_curve_type returns sharp_<side> when both sensors of *)
(* the side are active, gentle_<side> when exactly one is, with or without *)
(* the center sensor, and straight when no side sensor is active.          *)
C12_OneSidedClassification ==
    last_op = "detect_curve_type" =>
        LET l == LeftActive(args[1])
            r == RightActive(args[1])
        IN  /\ (l = 0 /\ r = 0) => ret = "straight"
            /\ (l = 2 /\ r = 0) => ret = "sharp_left"
            /\ (l = 1 /\ r = 0) => ret = "gentle_left"
            /\ (l = 0 /\ r = 2) => ret = "sharp_right"
            /\ (l = 0 /\ r = 1) => ret = "gentle_right"

(* C13: left wins ties: for a frame with an active sensor on each side,    *)
(* _detect_curve_type returns sharp_left when both left sensors are        *)
(* active and gentle_left otherwise, never a right type.                   *)
C13_LeftWinsTies ==
    (/\ last_op = "detect_curve_type"
     /\ LeftActive(args[1]) >= 1
     /\ RightActive(args[1]) >= 1) =>
        ret = IF LeftActive(args[1]) = 2 THEN "sharp_left" ELSE "gentle_left"

\* sum of the weights -2,-1,0,1,2 of the active sensors of a frame
ActiveWeights(f) ==
    (IF f[1] THEN -2 ELSE 0) + (IF f[2] THEN -1 ELSE 0) + (IF f[4] THEN 1 ELSE 0)
  + (IF f[5] THEN 2 ELSE 0)

(* C14: over all 32 frames _calculate_line_position is the sum of the      *)
(* weights of the active sensors divided by their number: the sensor's     *)
(* weight when one sensor is active, 0 when none is (and then              *)
(* _is_all_white is true), and always within [-2, 2].                      *)
C14_LinePositionIsMeanWeight ==
    last_op = "calculate_line_position" =>
        LET f == args[1]
            n == Cardinality({i \in 1..5 : f[i]})
        IN  /\ n > 0 => ret * n = PosOne * ActiveWeights(f)
            /\ \A i \in 1..5 : (f[i] /\ n = 1) => ret = PosOne * (i - 3)
            /\ n = 0 => (ret = 0 /\ is_all_white(f))
            /\ is_all_white(f) => n = 0
            /\ -2 * PosOne <= ret /\ ret <= 2 * PosOne

\* the two right sensors alone: position 1.5
C14_Witness ==
    /\ last_op = "calculate_line_position"
    /\ args = <<Frame(0,0,0,1,1)>>
    /\ ret = (3 * PosOne) \div 2

(* C15: _is_dot_pattern is true iff at least 3 frames have been read and   *)
(* the center readings of the last 3 frames are T,F,T or F,T,F; the other  *)
(* sensors and older frames do not matter.                                 *)
C15_DotIsCentreAlternation ==
    last_op = "is_dot_pattern" =>
        (ret <=>
            /\ ticks >= 3
            /\ LET n == Len(sensor_history)
               IN  <<sensor_history[n - 2][3], sensor_history[n - 1][3], sensor_history[n][3]>>
                       \in {<<TRUE, FALSE, TRUE>>, <<FALSE, TRUE, FALSE>>})

\* a dot found in T,F,T with different side sensors, after an older T
C15_Witness ==
    /\ last_op = "is_dot_pattern"
    /\ ret = TRUE
    /\ sensor_history = <<Frame(0,0,1,0,0), Frame(0,0,1,0,0), Frame(0,1,0,0,0),
                          Frame(0,1,1,0,0)>>

\* the speeds returned by the last of a sequence of _pid_control calls
RECURSIVE PidRun(_, _, _)
PidRun(errors, integral, previous_error) ==
    LET p == pid_control(Head(errors), integral, previous_error)
    IN  IF Len(errors) = 1 THEN <<p.left_speed, p.right_speed>>
        ELSE PidRun(Tail(errors), p.pid_integral, p.pid_previous_error)

(* C16: the PID output is order-dependent: from a fresh PidState, the      *)
(* wheel speeds returned by the third call after errors [1,1,1] differ     *)
(* from those returned by the third call after errors [1,-1,1].            *)
C16_PidOrderDependent ==
    (last_op = "pid_control" /\ args = <<PosOne, PosOne, PosOne>>) =>
        ret # PidRun(<<PosOne, -PosOne, PosOne>>, 0, 0)

C18_StopOnEveryExit ==
    /\ [][(pc \in {"loop", "scan"} /\ pc' \notin {"loop", "scan"}) => pc' = "finally"]_vars
    /\ [][pc = "finally" =>
              (pc' = "exit" /\ cmds' = <<StopCmd>> /\ wheels' = <<0, 0>>)]_vars
    /\ [][pc = "exit" => UNCHANGED <<wheels, cmds>>]_vars
    /\ [](pc = "exit" => (last_op = "cleanup" /\ cmds = <<StopCmd>> /\ wheels = <<0, 0>>))

\* the run ended after a left turn had been commanded at a crossing
C18_Witness ==
    /\ pc = "exit"
    /\ qr_result = Str(LeftWord)
    /\ current_state = LINE_FOLLOWING
    /\ previous_state = QR_SCANNING
    /\ wheels = <<0, 0>>

(* C19: re-entering the same state is a no-op: a tick whose next state is  *)
(* the current state leaves previous_state and the state-entry timestamp   *)
(* alone, so time-in-state goes on growing; the timestamp is restarted     *)
(* exactly on the ticks that change the state.                             *)
C19_SameStateIsNoOp ==
    [][ticks' = ticks + 1 =>
          IF current_state' = current_state
          THEN /\ previous_state' = previous_state
               /\ time_in_state' > 0
               /\ time_in_state' >= time_in_state
               /\ time_in_state' =
                      Min(time_in_state + dt_last', Horizon(current_state) + Overshoot)
          ELSE /\ previous_state' = current_state
               /\ time_in_state' = 0]_vars

\* two ticks stayed in LINE_FOLLOWING: 0.5 s in the state
C19_Witness ==
    /\ current_state = LINE_FOLLOWING
    /\ previous_state = WAITING_START
    /\ last_op = "update"
    /\ time_in_state = 500

(* C20: QR_SCANNING is entered only by a tick in CROSSING_ANALYSIS, only   *)
(* when more than 0.5 s have passed since CROSSING_ANALYSIS was entered,   *)
(* and every tick in CROSSING_ANALYSIS issues a stop and no drive command. *)
C20_ScanOnlyAfterSettle ==
    /\ [][(current_state # QR_SCANNING /\ current_state' = QR_SCANNING) =>
              /\ current_state = CROSSING_ANALYSIS
              /\ ticks' = ticks + 1
              /\ time_in_state + dt_last' > 500]_vars
    /\ [][(current_state = CROSSING_ANALYSIS /\ ticks' = ticks + 1) =>
              /\ cmds' = <<StopCmd>>
              /\ wheels' = <<0, 0>>
              /\ pid_calls' = 0]_vars

\* three stopped ticks of 0.25 s in CROSSING_ANALYSIS, then QR_SCANNING
C20_Witness ==
    /\ JustEntered(QR_SCANNING)
    /\ previous_state = CROSSING_ANALYSIS
    /\ dt_last = 250
    /\ cmds = <<StopCmd>>

\* number of active sensors of a frame
Active(f) == Cardinality({i \in 1..5 : f[i]})

(* C21: the next state is a function of (current state, frame, elapsed     *)
(* time in state) alone, whatever the sensor history: a controller that    *)
(* has followed the line for 0.5 s and reads the centered frame 00100      *)
(* moves where the controller whose history holds only 00100 frames moves, *)
(* that is, it stays in LINE_FOLLOWING.                                    *)
C21_NextStateIgnoresHistory ==
    [][(/\ current_state = LINE_FOLLOWING
        /\ ticks' = ticks + 1
        /\ qr_result = None
        /\ time_in_state + dt_last' = 500
        /\ LastFrame' = Frame(0,0,1,0,0)) =>
           current_state' = LINE_FOLLOWING]_vars

\* the transition table of a tick: the next state from the current state,
\* the frame f, the time t in the state, whether the last 3 center readings
\* alternate (dot), the confidence counter and the tracked curve type
NextRef(state, f, t, dot, conf, curve) ==
    CASE state = INIT -> WAITING_START
      [] state = WAITING_START ->
            IF Active(f) \in 1..4 THEN LINE_FOLLOWING ELSE WAITING_START
      [] state = LINE_FOLLOWING ->
            IF Active(f) = 0 THEN (IF t > 1000 THEN ERROR_RECOVERY ELSE LINE_FOLLOWING)
            ELSE IF Active(f) >= 4 THEN CROSSING_ANALYSIS
            ELSE IF dot THEN DOT_DETECTION
            ELSE IF detect_curve_type(f) # "straight" THEN CURVE_DETECTION
            ELSE LINE_FOLLOWING
      [] state = CURVE_DETECTION ->
            IF detect_curve_type(f) = curve
            THEN (IF conf + 1 >= 2 THEN CURVE_FOLLOWING ELSE CURVE_DETECTION)
            ELSE (IF detect_curve_type(f) = "straight" THEN LINE_FOLLOWING
                  ELSE CURVE_DETECTION)
      [] state = CURVE_FOLLOWING ->
            IF detect_curve_type(f) = "straight" THEN LINE_FOLLOWING
            ELSE IF Active(f) >= 4 THEN CROSSING_ANALYSIS
            ELSE IF dot THEN DOT_DETECTION
            ELSE CURVE_FOLLOWING
      [] state = DOT_DETECTION ->
            IF Active(f) >= 4 THEN CROSSING_ANALYSIS
            ELSE IF ~dot /\ t > 2000 THEN LINE_FOLLOWING
            ELSE DOT_DETECTION
      [] state = CROSSING_ANALYSIS -> IF t > 500 THEN QR_SCANNING ELSE CROSSING_ANALYSIS
      [] state = QR_SCANNING -> QR_SCANNING
      [] state = ERROR_RECOVERY ->
            IF Active(f) >= 1 THEN LINE_FOLLOWING
            ELSE IF t > 5000 THEN GOAL_REACHED
            ELSE ERROR_RECOVERY
      [] OTHER -> GOAL_REACHED

(* C21 (amended): the next state of a tick is a function of (current       *)
(* state, frame, elapsed time in state, whether the center readings of the *)
(* last 3 frames alternate, confidence counter, tracked curve type): it is *)
(* the entry of the transition table for these six.                        *)
C21_NextStateFromContext ==
    [][ticks' = ticks + 1 =>
          current_state' = NextRef(current_state, LastFrame', time_in_state + dt_last',
                                   CentreToggled(sensor_history'), curve_confidence,
                                   current_curve_type)]_vars

\* the centered frame read in LINE_FOLLOWING led to DOT_DETECTION
C21_Witness ==
    /\ JustEntered(DOT_DETECTION)
    /\ previous_state = LINE_FOLLOWING
    /\ LastFrame = Frame(0,0,1,0,0)

(* C22: in WAITING_START the controller stays on an all-black and on an    *)
(* all-white frame, moves to LINE_FOLLOWING exactly on frames with 1 to 4  *)
(* active sensors, and issues no motor command.                            *)
C22_WaitingStart ==
    [][(current_state = WAITING_START /\ ticks' = ticks + 1) =>
          /\ current_state' =
                 (IF Active(LastFrame') \in 1..4 THEN LINE_FOLLOWING ELSE WAITING_START)
          /\ cmds' = <<>>
          /\ pid_calls' = 0
          /\ wheels' = wheels]_vars

\* the run started on a frame with 4 active sensors
C22_Witness ==
    /\ JustEntered(LINE_FOLLOWING)
    /\ previous_state = WAITING_START
    /\ Active(LastFrame) = 4

(* C23: on a DOT_DETECTION tick the crossing check comes before driving:   *)
(* on a crossing frame (>= 4 active) no drive command is issued and        *)
(* PidState is not changed; otherwise, if any sensor is active, one PID    *)
(* drive command with both speeds scaled by 0.6 is issued.                 *)
C23_DotCrossingBeforeDrive ==
    [][(current_state = DOT_DETECTION /\ ticks' = ticks + 1) =>
          IF Active(LastFrame') >= 4
          THEN /\ cmds' = <<>>
               /\ pid_calls' = 0
               /\ pid_integral' = pid_integral
               /\ pid_previous_error' = pid_previous_error
          ELSE Active(LastFrame') >= 1 =>
                  LET p == pid_control(calculate_line_position(LastFrame'),
                                       pid_integral, pid_previous_error)
                  IN  /\ pid_calls' = 1
                      /\ cmds' = << <<(6 * p.left_speed) \div 10,
                                      (6 * p.right_speed) \div 10>> >>]_vars

(* C24: DOT_DETECTION is left for LINE_FOLLOWING only on a tick where      *)
(* time-in-state exceeds 2.0 s and the last 3 frames are not dot-like;     *)
(* before 2.0 s it stays or goes to CROSSING_ANALYSIS, and a crossing      *)
(* frame sends it to CROSSING_ANALYSIS at any elapsed time.                *)
C24_DotExit ==
    [][(current_state = DOT_DETECTION /\ ticks' = ticks + 1) =>
          LET t == time_in_state + dt_last'
          IN  /\ current_state' \in {DOT_DETECTION, CROSSING_ANALYSIS, LINE_FOLLOWING}
              /\ Active(LastFrame') >= 4 => current_state' = CROSSING_ANALYSIS
              /\ current_state' = CROSSING_ANALYSIS => Active(LastFrame') >= 4
              /\ current_state' = LINE_FOLLOWING =>
                     (t > 2000 /\ ~CentreToggled(sensor_history'))
              /\ t <= 2000 => current_state' # LINE_FOLLOWING]_vars

\* the dots ended: back to LINE_FOLLOWING after more than 2.0 s
C24_Witness ==
    /\ JustEntered(LINE_FOLLOWING)
    /\ previous_state = DOT_DETECTION
    /\ dt_last > 2000

\* the nudge of a recovery tick t ms after ERROR_RECOVERY was entered
RecoveryNudge(t) ==
    IF t < 1000 THEN <<SpeedOne \div 10, SpeedOne \div 5>>
    ELSE IF t < 2000 THEN <<SpeedOne \div 5, SpeedOne \div 10>>
    ELSE <<(3 * SpeedOne) \div 20, (3 * SpeedOne) \div 20>>

(* C25: an ERROR_RECOVERY tick issues exactly one command chosen by        *)
(* time-in-state: (0.1, 0.2) for t < 1.0 s, (0.2, 0.1) for 1.0 <= t < 2.0, *)
(* (0.15, 0.15) from 2.0 s; a frame with an active sensor leads to         *)
(* LINE_FOLLOWING whatever the time, and GOAL_REACHED is entered only on   *)
(* an all-white frame with t > 5.0 s.                                      *)
C25_RecoveryBands ==
    [][(current_state = ERROR_RECOVERY /\ last_op' = "update") =>
          LET t == time_in_state + dt_last'
          IN  /\ cmds' = <<RecoveryNudge(t)>>
              /\ pid_calls' = 0
              /\ Active(LastFrame') >= 1 => current_state' = LINE_FOLLOWING
              /\ Active(LastFrame') = 0 =>
                     current_state' = (IF t > 5000 THEN GOAL_REACHED ELSE ERROR_RECOVERY)]_vars

\* the line was found again by a crawl tick
C25_Witness ==
    /\ JustEntered(LINE_FOLLOWING)
    /\ previous_state = ERROR_RECOVERY
    /\ cmds = << <<(3 * SpeedOne) \div 20, (3 * SpeedOne) \div 20>> >>

(* C26: when LINE_FOLLOWING resumes after a scan its time-in-state starts  *)
(* at the end of handle_qr_result: the time spent in CROSSING_ANALYSIS, in *)
(* the scan and in the hold does not count toward the 1.0 s whiteout       *)
(* threshold, so an all-white frame on the first tick after resumption     *)
(* (read within 1.0 s of the scan's completion) does not lead to           *)
(* ERROR_RECOVERY.                                                         *)
C26_ResumeRestartsClock ==
    /\ [][(pc = "scan" /\ last_op' = "qr" /\ current_state' = LINE_FOLLOWING) =>
              time_in_state' = 0]_vars
    /\ [][(/\ last_op = "qr"
           /\ current_state = LINE_FOLLOWING
           /\ ticks' = ticks + 1
           /\ Active(LastFrame') = 0
           /\ dt_last' <= 1000) =>
              current_state' = LINE_FOLLOWING]_vars

\* the first tick after a scan read an all-white frame and stayed
C26_Witness ==
    /\ current_state = LINE_FOLLOWING
    /\ previous_state = QR_SCANNING
    /\ last_op = "update"
    /\ Active(LastFrame) = 0
    /\ time_in_state = dt_last

(* C27: PidState is never reset mid-run: pid_integral and                  *)
(* pid_previous_error change only on a tick that runs the PID step; state  *)
(* changes, handle_qr_result and ticks without a PID drive leave both      *)
(* unchanged.                                                              *)
C27_PidStateOnlyByPid ==
    [][(pid_integral' # pid_integral \/ pid_previous_error' # pid_previous_error) =>
          (ticks' = ticks + 1 /\ pid_calls' >= 1)]_vars

\* a scan result was handled and the accumulated integral is still there
C27_Witness ==
    /\ last_op = "qr"
    /\ current_state = LINE_FOLLOWING
    /\ pid_integral # 0

(* C28: the PID step runs at most once per tick: an update() changes       *)
(* PidState by at most one step (integral += error * dt, previous error =  *)
(* error).                                                                 *)
C28_PidOncePerTick ==
    [][ticks' = ticks + 1 =>
          /\ pid_calls' \in {0, 1}
          /\ pid_calls' = 1 =>
                 /\ pid_integral' = pid_integral + calculate_line_position(LastFrame')
                 /\ pid_previous_error' = calculate_line_position(LastFrame')]_vars

\* two PID drives accumulated
C28_Witness ==
    /\ last_op = "update"
    /\ pid_calls = 1
    /\ pid_integral = -PosOne
    /\ pid_previous_error = -(PosOne \div 2)

(* C29: the sensor history is a bounded FIFO: after n update() calls, in   *)
(* any states, it holds the last min(n, 5) frames read in arrival order:   *)
(* each tick appends its frame, evicts the oldest frame when 5 are held,   *)
(* and keeps the others in place; no other operation touches it.           *)
C29_HistoryIsBoundedFifo ==
    /\ [](Len(sensor_history) = (IF ticks < 5 THEN ticks ELSE 5))
    /\ [][ticks' = ticks + 1 =>
              LET n == Len(sensor_history)
                  shift == IF n = 5 THEN 1 ELSE 0
              IN  /\ Len(sensor_history') = n + 1 - shift
                  /\ \A i \in 1..(n - shift) : sensor_history'[i] = sensor_history[i + shift]]_vars
    /\ [][ticks' = ticks => sensor_history' = sensor_history]_vars

\* an eviction by a tick made in QR_SCANNING
C29_Witness ==
    /\ ticks = 6
    /\ last_op = "update"
    /\ current_state = QR_SCANNING
    /\ time_in_state > 0
    /\ sensor_history[1] # sensor_history[2]

(* C30: with the poller running, every frame returned by                   *)
(* get_threaded_sensor_states is an atomic snapshot: it equals one         *)
(* complete reading published by the poller, and later publications do not *)
(* alter a frame already returned.                                         *)
C30_AtomicSnapshot ==
    /\ [](\A i \in 1..Len(returned) : \E j \in 1..Len(published) : returned[i] = published[j])
    /\ [][\A i \in 1..Len(returned) : returned'[i] = returned[i]]_vars

C32_ScanResultOnlyWhenPending ==
    [][(current_state # QR_SCANNING /\ last_op' = "qr") =>
          /\ current_state' = current_state
          /\ cmds' = <<>>
          /\ wheels' = wheels]_vars

(* C33: a crossing is never driven through: once the controller is in      *)
(* LINE_FOLLOWING, CURVE_DETECTION, CURVE_FOLLOWING or DOT_DETECTION and   *)
(* every frame from then on is a crossing, with ticks continuing, it       *)
(* reaches CROSSING_ANALYSIS and after that QR_SCANNING.                   *)
C33_CrossingReachesScan ==
    /\ [](pc = "crossing" => current_state \in Following \cup {CROSSING_ANALYSIS, QR_SCANNING})
    /\ (pc = "crossing" /\ current_state \in Following) ~> (current_state = CROSSING_ANALYSIS)
    /\ (pc = "crossing" /\ current_state = CROSSING_ANALYSIS) ~> (current_state = QR_SCANNING)

\* update() has returned False in GOAL_REACHED with both wheels stopped
ControlledStop ==
    /\ current_state = GOAL_REACHED
    /\ last_op = "update"
    /\ ret = FALSE
    /\ wheels = StopCmd

(* C34: a permanently lost line ends in a controlled stop: once the        *)
(* controller is in LINE_FOLLOWING, CURVE_DETECTION, CURVE_FOLLOWING,      *)
(* DOT_DETECTION or ERROR_RECOVERY and every frame from then on is         *)
(* all-white, with ticks continuing, it reaches GOAL_REACHED and update()  *)
(* returns False with the motors stopped.                                  *)
C34_LostLineStops ==
    /\ [](pc = "lost" => current_state \in Following \cup {ERROR_RECOVERY, GOAL_REACHED})
    /\ (pc = "lost") ~> ControlledStop

\* the stop was reached by the recovery timeout after the line was lost in a bend
C34_Witness ==
    /\ pc = "lost"
    /\ ControlledStop
    /\ previous_state = ERROR_RECOVERY
    /\ current_curve_type # "straight"

(* C35: in CURVE_FOLLOWING a crossing frame always leads to                *)
(* CROSSING_ANALYSIS: no frame with 4 or more active sensors is classified *)
(* Straight, so the Straight exit to LINE_FOLLOWING, tested first, never   *)
(* pre-empts the crossing check.  Stated of the ticks made and, in every   *)
(* CURVE_FOLLOWING state, of the tick each of the crossing frames would    *)
(* make.                                                                   *)
C35_CrossingNotPreempted ==
    /\ [][(current_state = CURVE_FOLLOWING /\ last_op' = "update" /\ is_crossing(LastFrame'))
             => current_state' = CROSSING_ANALYSIS]_vars
    /\ [](current_state = CURVE_FOLLOWING =>
             \A f \in AllFrames :
                 is_crossing(f) =>
                     /\ detect_curve_type(f) # "straight"
                     /\ handle_curve_following(f, update_sensor_history(sensor_history, f)).next
                            = CROSSING_ANALYSIS)

\* a crossing frame read in CURVE_FOLLOWING has led to CROSSING_ANALYSIS
C35_Witness ==
    /\ JustEntered(CROSSING_ANALYSIS)
    /\ previous_state = CURVE_FOLLOWING
    /\ is_crossing(LastFrame)
    /\ curve_confidence >= curve_detection_threshold

(* C36: the steering direction of the PID drive agrees with the curve      *)
(* profiles and the recovery nudges, where turning left slows the left     *)
(* wheel: a PID drive issued for a frame whose line position is negative   *)
(* (line left of center) does not command the left wheel faster than the   *)
(* right wheel, and for a positive position not the right wheel faster     *)
(* than the left.                                                          *)
C36_PidSteersTowardLine ==
    [][(last_op' = "update" /\ pid_calls' = 1) =>
          LET line_position == calculate_line_position(LastFrame')
              left_speed == cmds'[1][1]
              right_speed == cmds'[1][2]
          IN  /\ line_position < 0 => left_speed <= right_speed
              /\ line_position > 0 => left_speed >= right_speed]_vars

(* C37: in CURVE_FOLLOWING, whenever a profile-table drive command is      *)
(* issued, the wheel it slows is on the side of the curve type classified  *)
(* from the current frame: the left wheel for a left curve, the right      *)
(* wheel for a right curve.                                                *)
C37_ProfileSideMatchesFrame ==
    [][(current_state = CURVE_FOLLOWING /\ last_op' = "update" /\ cmds' # <<>>) =>
          LET curve_type == detect_curve_type(LastFrame')
              left_speed == cmds'[1][1]
              right_speed == cmds'[1][2]
          IN  /\ curve_type \in {"gentle_left", "sharp_left"} => left_speed < right_speed
              /\ curve_type \in {"gentle_right", "sharp_right"} => right_speed < left_speed]_vars

\* the line positions _calculate_line_position can return
LinePositions == {calculate_line_position(f) : f \in AllFrames}

\* wheel speeds that sum to 2 * base_speed and lie in [0.2, 1.8] * base_speed
Balanced(left_speed, right_speed) ==
    /\ left_speed + right_speed = 2 * SpeedNormal
    /\ (2 * SpeedNormal) \div 10 <= left_speed /\ left_speed <= (18 * SpeedNormal) \div 10
    /\ (2 * SpeedNormal) \div 10 <= right_speed /\ right_speed <= (18 * SpeedNormal) \div 10

C39_NeverThePlaceholder ==
    [][returned' # returned =>
          /\ published # <<>>
          /\ \E j \in 1..Len(published) : returned'[Len(returned')] = published[j]]_vars

=============================================================================
